---------------------------- MODULE Spec2Model ----------------------------
(***************************************************************************)
(* Model of the block-path placement engine of vmf_generator:              *)
(*   src/core/path_generator.py  (PathGenerator)                           *)
(*   src/core/path_types.py      (PathSegment, create_pattern)             *)
(*   src/vmf/brushes.py          (Solid.get_rotated_bounds)                *)
(*                                                                         *)
(* Numbers.  The program computes on Python floats.  The model computes    *)
(* exactly: every coordinate that is stored (start position, cursor, box   *)
(* position, sizes) is an integer; a value that is only handed to          *)
(* snap_to_grid is a fraction num/den; a bounding box is kept multiplied   *)
(* by BoundScale, so that the rotated corners of a box turned by one of    *)
(* the angles below (their cosine and sine are fractions over RotDen) are  *)
(* integers.  A rotation angle is kept in hundredths of a degree.          *)
(*                                                                         *)
(* Random draws.  Every call of the random module is an \E over the        *)
(* values the call can return; random.uniform(a, b) is drawn at the        *)
(* DrawSteps+1 equidistant points of [a, b].                               *)
(***************************************************************************)
EXTENDS Integers, Sequences, FiniteSets, TLC

\* ------------------------------------------------------------- bounds
\* random.uniform(a, b) is drawn at a + (b - a) * k / DrawSteps, k \in 0..DrawSteps
DrawSteps == 2
\* block_count of a run is drawn from 1..MaxBlocks
MaxBlocks == 3
\* the largest block count handed to create_pattern
MaxTotalBlocks == 9

\* ---------------------------------------------------- program constants
max_attempts == 100
MinSpacing == 50
MinPathWidth == 128
MinSegmentLength == 400
BaseSize == 96
BaseHeight == 32
IdOffset == 10
MaxRowBlocks == 10
\* cos and sin of the modelled angles are fractions over RotDen
RotDen == 5
\* bounding boxes are kept multiplied by BoundScale = 2 * RotDen
BoundScale == 10

\* ------------------------------------------------------------ helpers
Abs(n) == IF n < 0 THEN -n ELSE n

MaxOf(S, default) == IF S = {} THEN default ELSE CHOOSE m \in S : \A n \in S : n <= m

MinOf(S) == CHOOSE m \in S : \A n \in S : m <= n

\* Python list slice s[start:] (0-based start, a negative start counts from
\* the end and is clamped to the start of the list)
PySliceFrom(s, start) ==
    LET n == Len(s)
        b == IF start < 0 THEN (IF n + start < 0 THEN 0 ELSE n + start)
             ELSE (IF start > n THEN n ELSE start)
    IN  [i \in 1..(n - b) |-> s[b + i]]

\* Python round(num / den): to the nearest integer, a tie to the even one
RoundHalfEven(num, den) ==
    LET n == IF den < 0 THEN -num ELSE num
        d == Abs(den)
        q == n \div d
        r == n - q * d
    IN  IF 2 * r < d THEN q
        ELSE IF 2 * r > d THEN q + 1
        ELSE IF q % 2 = 0 THEN q ELSE q + 1

\* Python int(num / den) for the positive values it is used on: truncation
IntTrunc(num, den) == num \div den

\* PathGenerator.BLOCK_SIZES: (width, length, height)
BLOCK_SIZES(name) ==
    CASE name = "small"  -> <<64, 64, 32>>
      [] name = "medium" -> <<96, 96, 32>>
      [] name = "large"  -> <<128, 128, 32>>
      [] name = "long"   -> <<128, 256, 32>>
      [] name = "wide"   -> <<192, 128, 32>>

BlockTypeNames == {"small", "medium", "large", "long", "wide"}

\* The angles of the model, in hundredths of a degree: 0 and atan(3/4) =
\* 36.87 degrees of either sign, whose cosine 4/5 and sine 3/5 are exact.
CosNum(a) == IF a = 0 THEN 5 ELSE 4

SinNum(a) == IF a = 0 THEN 0 ELSE IF a > 0 THEN 3 ELSE -3

\* the values random.uniform(-45, 45) is drawn from
UniformAngles == {-3687}

VARIABLES
    \* PathGenerator's attributes
    start_pos, block_count, spacing, path_width, segment_length,
    max_blocks_per_row, block_types, randomize_sizes, randomize_positions,
    grid_size, path_pattern, segments, rotation_mode, shape_manager,
    \* the method the caller runs on the generator
    call,
    \* the running generation call
    pc, solids, segment_solids, seg_idx, current_progress, blocks_generated,
    current_row_blocks, blocks_in_current_row, block_size, block_pos,
    rotation_angle, attempts, collision,
    \* history: the rows given up so far in the running call (a block could
    \* not be placed: lines 267-269, 406-408 and 437-439)
    rows_abandoned

config == <<start_pos, block_count, spacing, path_width, segment_length,
            max_blocks_per_row, block_types, randomize_sizes,
            randomize_positions, grid_size, path_pattern, rotation_mode,
            shape_manager, call>>

locals == <<pc, solids, segment_solids, seg_idx, current_progress,
            blocks_generated, current_row_blocks, blocks_in_current_row,
            block_size, block_pos, rotation_angle, attempts, collision,
            rows_abandoned>>

vars == <<config, segments, locals>>

\* -------------------------------------------------------- snap_to_grid
\* PathGenerator.snap_to_grid applied to the fraction num/den
snap_to_grid(num, den) == RoundHalfEven(num, den * grid_size) * grid_size

\* ------------------------------------------------- Solid, bounding boxes
Solid(id, pos, size, rotation_z) ==
    [id |-> id, pos |-> pos, size |-> size, rotation_z |-> rotation_z]

\* Solid._rotate_vertex on the top face's corner (center + (dx, dy) / 2),
\* multiplied by BoundScale: <<x, y>>
RotatedCorner(pos, size, rotation_z, sx, sy) ==
    LET cx2 == 2 * pos[1] + size[1]
        cy2 == 2 * pos[2] + size[2]
        dx2 == sx * size[1]
        dy2 == sy * size[2]
        c == CosNum(rotation_z)
        s == SinNum(rotation_z)
    IN  << RotDen * cx2 + (dx2 * c - dy2 * s),
           RotDen * cy2 + (dx2 * s + dy2 * c) >>

\* Solid.get_rotated_bounds: (min_x, min_y, max_x, max_y) over the four
\* rotated corners of the top face, multiplied by BoundScale
get_rotated_bounds(pos, size, rotation_z) ==
    LET corners == { RotatedCorner(pos, size, rotation_z, sg[1], sg[2]) :
                       sg \in {<<-1, 1>>, <<1, 1>>, <<1, -1>>, <<-1, -1>>} }
        bounds(vertices) ==
            << MinOf({ v[1] : v \in vertices }), MinOf({ v[2] : v \in vertices }),
               MaxOf({ v[1] : v \in vertices }, 0),
               MaxOf({ v[2] : v \in vertices }, 0) >>
    IN  CHOOSE b \in { bounds(vertices) : vertices \in {corners} } : TRUE

\* a faulty _check_collision that takes the raw corners of a turned box
RawBounds(pos, size, rotation_z) ==
    << BoundScale * pos[1], BoundScale * pos[2],
       BoundScale * (pos[1] + size[1]), BoundScale * (pos[2] + size[2]) >>

\* the bounds _check_collision uses for a box: rotated or raw corners
CollisionBounds(pos, size, rotation_z) ==
    IF rotation_z # 0
    THEN get_rotated_bounds(pos, size, rotation_z)
    ELSE << BoundScale * pos[1], BoundScale * pos[2],
            BoundScale * (pos[1] + size[1]), BoundScale * (pos[2] + size[2]) >>

\* the test of one existing solid inside _check_collision's loop
CollidesWith(pos, size, rotation_z, solid) ==
    \E b1 \in {CollisionBounds(pos, size, rotation_z)},
       b2 \in {CollisionBounds(solid.pos, solid.size, solid.rotation_z)} :
        LET collision_x == b1[1] < b2[3] /\ b1[3] > b2[1]
            collision_y == b1[2] < b2[4] /\ b1[4] > b2[2]
            collision_z == /\ pos[3] < solid.pos[3] + solid.size[3]
                           /\ pos[3] + size[3] > solid.pos[3]
        IN  collision_x /\ collision_y /\ collision_z

\* PathGenerator._check_collision
check_collision(pos, size, existing_solids, rotation_z) ==
    \E i \in DOMAIN existing_solids :
        CollidesWith(pos, size, rotation_z, existing_solids[i])


\* ------------------------------------------------------ random choices
\* ShapeManager.get_enabled_shapes
get_enabled_shapes(manager) == SelectSeq(manager.shapes, LAMBDA s : s.enabled)

\* the truth value of "self.shape_manager and
\* self.shape_manager.get_enabled_shapes()"
UsesShapes == shape_manager.set /\ get_enabled_shapes(shape_manager) # <<>>

\* PathGenerator._get_block_size_from_shapes for the drawn shape; a size
\* multiplier is kept doubled (1.5 is 3)
ShapeSize(shape) ==
    << IntTrunc(BaseSize * shape.size_multiplier[1], 2),
       IntTrunc(BaseSize * shape.size_multiplier[2], 2),
       BaseHeight >>

\* a "Select block size" that draws among block_types whether or not
\* randomize_sizes is set
SizeChoicesAlwaysRandom ==
    IF UsesShapes
    THEN LET enabled == get_enabled_shapes(shape_manager)
         IN  { ShapeSize(enabled[i]) : i \in DOMAIN enabled }
    ELSE { BLOCK_SIZES(block_types[i]) : i \in DOMAIN block_types }

\* the sizes "Select block size" can yield
BlockSizeChoices ==
    IF UsesShapes
    THEN LET enabled == get_enabled_shapes(shape_manager)
         IN  { ShapeSize(enabled[i]) : i \in DOMAIN enabled }
    ELSE IF randomize_sizes
         THEN { BLOCK_SIZES(block_types[i]) : i \in DOMAIN block_types }
         ELSE { BLOCK_SIZES(block_types[1]) }

\* a _get_rotation_angle that draws an angle whatever the rotation mode
RotationIgnoresMode == UniformAngles

\* the angles PathGenerator._get_rotation_angle can return
RotationChoices ==
    IF rotation_mode = "NONE" THEN {0}
    ELSE IF rotation_mode = "PRIORITY_STRAIGHT" THEN {0} \cup UniformAngles
    ELSE IF rotation_mode = "FULL_RANDOM" THEN UniformAngles
    ELSE {0}

\* center + random.uniform(-range, range) at draw k, as <<num, den>>;
\* range2 is twice the range: (width - extent) for (width - extent) / 2
UniformOffset(center, range2, k) ==
    << 2 * DrawSteps * center + range2 * (2 * k - DrawSteps), 2 * DrawSteps >>

\* a row size draw that can exceed max_blocks_per_row by one
RowSizeOneMore == 1..(max_blocks_per_row + 1)

\* the row sizes random.randint(1, max_blocks_per_row) can return
RowSizeChoices == 1..max_blocks_per_row

\* ----------------------------------------------- generate_straight_line
\* a faulty "Calculate X position" that randomizes the first block too
FlatAlwaysRandomX(size, k) ==
    IF randomize_positions
    THEN LET u == UniformOffset(start_pos[1], path_width - size[1], k)
         IN  snap_to_grid(u[1], u[2])
    ELSE snap_to_grid(2 * start_pos[1] - size[1], 2)

\* "Calculate X position", snapped: the first candidate of a block
FlatFirstX(size, k) ==
    IF randomize_positions /\ blocks_generated > 0
    THEN LET u == UniformOffset(start_pos[1], path_width - size[1], k)
         IN  snap_to_grid(u[1], u[2])
    ELSE snap_to_grid(2 * start_pos[1] - size[1], 2)

\* a faulty retry that rounds the new X but does not snap it
FlatRetryUnsnapped(size, k) ==
    LET u == UniformOffset(start_pos[1], path_width - size[1], k)
    IN  RoundHalfEven(u[1], u[2])

\* "Try different X position", snapped: the candidate of a retry
FlatRetryX(size, k) ==
    LET u == UniformOffset(start_pos[1], path_width - size[1], k)
    IN  snap_to_grid(u[1], u[2])

\* a faulty loop condition that stops one block short of block_count
FlatLoopStopsShort == blocks_generated + 1 < block_count

\* the while condition of generate_straight_line's main loop
FlatLoopCond == blocks_generated < block_count

\* the condition of the retry loops
RetryCond == collision /\ attempts < max_attempts

\* "if attempts >= max_attempts": the block cannot be placed in this row
FlatCannotPlace == attempts >= max_attempts

\* max(size[idx] of the boxes of list[row_start_idx:], default = 0)
RowMaxSize(list, row_blocks, idx) ==
    LET row == PySliceFrom(list, Len(list) - row_blocks)
    IN  MaxOf({ row[i].size[idx] : i \in DOMAIN row }, 0)

\* the amount current_y moves by when the row ends
FlatRowAdvance(list, row_blocks) == RowMaxSize(list, row_blocks, 2) + spacing

\* lines 209-215: the locals of generate_straight_line
FlatBegin ==
    /\ pc = "idle"
    /\ call = "generate_straight_line"
    /\ pc' = "flat_loop"
    /\ solids' = <<>>
    /\ current_progress' = start_pos
    /\ blocks_generated' = 0
    /\ current_row_blocks' = 0
    /\ blocks_in_current_row' = 1
    /\ rows_abandoned' = 0
    /\ UNCHANGED <<config, segments, segment_solids, seg_idx, block_size,
                   block_pos, rotation_angle, attempts, collision>>

\* lines 217-254: size, position, snap, rotation and the first collision test
FlatSelect ==
    /\ pc = "flat_loop"
    /\ FlatLoopCond
    /\ grid_size # 0
    /\ \E size \in BlockSizeChoices, k \in 0..DrawSteps, angle \in RotationChoices :
          /\ block_size' = size
          /\ block_pos' = << FlatFirstX(size, k),
                             snap_to_grid(current_progress[2], 1),
                             snap_to_grid(start_pos[3], 1) >>
          /\ rotation_angle' = angle
    /\ attempts' = 0
    /\ collision' = check_collision(block_pos', block_size', solids,
                                    rotation_angle')
    /\ pc' = "flat_retry"
    /\ UNCHANGED <<config, segments, solids, segment_solids, seg_idx,
                   current_progress, blocks_generated, current_row_blocks,
                   blocks_in_current_row,
                   rows_abandoned>>

\* line 242: snap_to_grid divides by a grid size of zero and the call ends
\* with ZeroDivisionError
FlatRaises ==
    /\ pc = "flat_loop"
    /\ FlatLoopCond
    /\ grid_size = 0
    /\ pc' = "raised"
    /\ UNCHANGED <<config, segments, solids, segment_solids, seg_idx,
                   current_progress, blocks_generated, current_row_blocks,
                   blocks_in_current_row, block_size, block_pos,
                   rotation_angle, attempts, collision, rows_abandoned>>

\* lines 256-265: one turn of the retry loop
FlatRetry ==
    /\ pc = "flat_retry"
    /\ RetryCond
    /\ \E k \in 0..DrawSteps :
          block_pos' = << FlatRetryX(block_size, k), block_pos[2], block_pos[3] >>
    /\ collision' = check_collision(block_pos', block_size, solids,
                                    rotation_angle)
    /\ attempts' = attempts + 1
    /\ UNCHANGED <<config, segments, pc, solids, segment_solids, seg_idx,
                   current_progress, blocks_generated, current_row_blocks,
                   blocks_in_current_row, block_size, rotation_angle,
                   rows_abandoned>>

\* lines 267-295: place the block or give the row up, then end the row
FlatPlace ==
    /\ pc = "flat_retry"
    /\ ~RetryCond
    /\ LET placed == ~FlatCannotPlace
           row_blocks == IF placed THEN current_row_blocks + 1
                         ELSE blocks_in_current_row
       IN  /\ solids' = IF placed
                        THEN Append(solids, Solid(blocks_generated + IdOffset,
                                                  block_pos, block_size,
                                                  rotation_angle))
                        ELSE solids
           /\ blocks_generated' = IF placed THEN blocks_generated + 1
                                   ELSE blocks_generated
           /\ rows_abandoned' = IF placed THEN rows_abandoned
                                 ELSE rows_abandoned + 1
           /\ IF row_blocks >= blocks_in_current_row
              THEN /\ current_progress' =
                        [current_progress EXCEPT
                            ![2] = @ + FlatRowAdvance(solids', row_blocks)]
                   /\ IF blocks_generated' > 0
                      THEN blocks_in_current_row' \in RowSizeChoices
                      ELSE UNCHANGED blocks_in_current_row
                   /\ current_row_blocks' = 0
              ELSE /\ current_row_blocks' = row_blocks
                   /\ UNCHANGED <<current_progress, blocks_in_current_row>>
    /\ pc' = "flat_loop"
    /\ UNCHANGED <<config, segments, segment_solids, seg_idx, block_size,
                   block_pos, rotation_angle, attempts, collision>>

\* line 297: return solids
FlatReturn ==
    /\ pc = "flat_loop"
    /\ ~FlatLoopCond
    /\ pc' = "done"
    /\ UNCHANGED <<config, segments, solids, segment_solids, seg_idx,
                   current_progress, blocks_generated, current_row_blocks,
                   blocks_in_current_row, block_size, block_pos,
                   rotation_angle, attempts, collision,
                   rows_abandoned>>


\* ---------------------------------------------------------- path_types
PathSegment(direction, length, width, blocks) ==
    [direction |-> direction, length |-> length, width |-> width,
     blocks |-> blocks, start_pos |-> <<0, 0, 0>>, end_pos |-> <<0, 0, 0>>]

\* an end position that takes a left turn for a right turn
EndPosLeftAsRight(segment) ==
    LET x == segment.start_pos[1]
        y == segment.start_pos[2]
        z == segment.start_pos[3]
    IN  CASE segment.direction = "FORWARD" -> <<x, y + segment.length, z>>
          [] segment.direction = "RIGHT"   -> <<x + segment.length, y, z>>
          [] segment.direction = "LEFT"    -> <<x + segment.length, y, z>>
          [] segment.direction = "BACK"    -> <<x, y - segment.length, z>>

\* PathSegment.calculate_end_pos: the new end_pos
calculate_end_pos(segment) ==
    LET x == segment.start_pos[1]
        y == segment.start_pos[2]
        z == segment.start_pos[3]
    IN  CASE segment.direction = "FORWARD" -> <<x, y + segment.length, z>>
          [] segment.direction = "RIGHT"   -> <<x + segment.length, y, z>>
          [] segment.direction = "LEFT"    -> <<x - segment.length, y, z>>
          [] segment.direction = "BACK"    -> <<x, y - segment.length, z>>

\* a faulty containment test that leaves out the far edge across the
\* corridor
CorridorNearEdgeOnly(segment, pos, size) ==
    LET bx == pos[1]
        by == pos[2]
        sx == segment.start_pos[1]
        sy == segment.start_pos[2]
        ex == segment.end_pos[1]
        ey == segment.end_pos[2]
        across_x == 2 * sx - segment.width <= 2 * bx
        across_y == 2 * sy - segment.width <= 2 * by
    IN  CASE segment.direction = "FORWARD" ->
                (sy <= by /\ by + size[2] <= ey) /\ across_x
          [] segment.direction = "RIGHT" ->
                (sx <= bx /\ bx + size[1] <= ex) /\ across_y
          [] segment.direction = "LEFT" ->
                (ex <= bx /\ bx + size[1] <= sx) /\ across_y
          [] segment.direction = "BACK" ->
                (ey <= by /\ by + size[2] <= sy) /\ across_x
          [] OTHER -> FALSE

\* PathSegment.is_position_in_corridor; half_width = width / 2 is compared
\* doubled
is_position_in_corridor(segment, pos, size) ==
    LET bx == pos[1]
        by == pos[2]
        bw == size[1]
        bl == size[2]
        sx == segment.start_pos[1]
        sy == segment.start_pos[2]
        ex == segment.end_pos[1]
        ey == segment.end_pos[2]
        across_x == /\ 2 * sx - segment.width <= 2 * bx
                    /\ 2 * (bx + bw) <= 2 * sx + segment.width
        across_y == /\ 2 * sy - segment.width <= 2 * by
                    /\ 2 * (by + bl) <= 2 * sy + segment.width
    IN  CASE segment.direction = "FORWARD" ->
                (sy <= by /\ by + bl <= ey) /\ across_x
          [] segment.direction = "RIGHT" ->
                (sx <= bx /\ bx + bw <= ex) /\ across_y
          [] segment.direction = "LEFT" ->
                (ex <= bx /\ bx + bw <= sx) /\ across_y
          [] segment.direction = "BACK" ->
                (ey <= by /\ by + bl <= sy) /\ across_x
          [] OTHER -> FALSE

\* the legs of a built-in pattern, as <<direction, length>>
PatternLegs(pattern, seg_length) ==
    CASE pattern = "STRAIGHT" -> << <<"FORWARD", seg_length * 3>> >>
      [] pattern = "RIGHT_TURN" ->
            << <<"FORWARD", seg_length>>, <<"RIGHT", seg_length>> >>
      [] pattern = "LEFT_TURN" ->
            << <<"FORWARD", seg_length>>, <<"LEFT", seg_length>> >>
      [] pattern = "S_CURVE" ->
            << <<"FORWARD", seg_length>>, <<"RIGHT", seg_length>>,
               <<"FORWARD", seg_length>> >>
      [] pattern = "ZIGZAG" ->
            << <<"FORWARD", seg_length>>, <<"RIGHT", seg_length \div 2>>,
               <<"LEFT", seg_length \div 2>>, <<"FORWARD", seg_length>> >>
      [] OTHER -> <<>>

\* create_pattern with the shares rounded up instead of down
CreatePatternRoundsUp(pattern, total_blocks, seg_length, corridor_width) ==
    LET legs == PatternLegs(pattern, seg_length)
        n == Len(legs)
    IN  [ i \in 1..n |->
            [direction |-> legs[i][1], length |-> legs[i][2],
             width |-> corridor_width,
             blocks |-> (total_blocks + n - 1) \div n,
             start_pos |-> <<0, 0, 0>>, end_pos |-> <<0, 0, 0>>] ]

\* create_pattern
create_pattern(pattern, total_blocks, seg_length, corridor_width) ==
    CASE pattern = "STRAIGHT" ->
            << PathSegment("FORWARD", seg_length * 3, corridor_width,
                           total_blocks) >>
      [] pattern = "RIGHT_TURN" ->
            << PathSegment("FORWARD", seg_length, corridor_width,
                           total_blocks \div 2),
               PathSegment("RIGHT", seg_length, corridor_width,
                           total_blocks \div 2) >>
      [] pattern = "LEFT_TURN" ->
            << PathSegment("FORWARD", seg_length, corridor_width,
                           total_blocks \div 2),
               PathSegment("LEFT", seg_length, corridor_width,
                           total_blocks \div 2) >>
      [] pattern = "S_CURVE" ->
            << PathSegment("FORWARD", seg_length, corridor_width,
                           total_blocks \div 3),
               PathSegment("RIGHT", seg_length, corridor_width,
                           total_blocks \div 3),
               PathSegment("FORWARD", seg_length, corridor_width,
                           total_blocks \div 3) >>
      [] pattern = "ZIGZAG" ->
            LET blocks_per_seg == total_blocks \div 4
            IN  << PathSegment("FORWARD", seg_length, corridor_width,
                               blocks_per_seg),
                   PathSegment("RIGHT", seg_length \div 2, corridor_width,
                               blocks_per_seg),
                   PathSegment("LEFT", seg_length \div 2, corridor_width,
                               blocks_per_seg),
                   PathSegment("FORWARD", seg_length, corridor_width,
                               blocks_per_seg) >>
      [] OTHER -> <<>>

\* ------------------------------------------------ generate_with_pattern
\* lines 302-308: the chain that is laid out
ChainToLayOut ==
    IF segments = <<>>
    THEN create_pattern(path_pattern, block_count, segment_length, path_width)
    ELSE segments

RECURSIVE ResolvePositions(_, _)
\* lines 311-315: start_pos and end_pos of every segment of the chain
ResolvePositions(chain, current_pos) ==
    IF chain = <<>> THEN <<>>
    ELSE LET started == [Head(chain) EXCEPT !.start_pos = current_pos]
             segment == [started EXCEPT !.end_pos = calculate_end_pos(started)]
         IN  <<segment>> \o ResolvePositions(Tail(chain), segment.end_pos)

\* the segment _generate_segment_blocks is running on
segment == segments[seg_idx + 1]

\* lines 342-367: the axes of a direction (1 = X, 2 = Y)
progress_axis(direction) == IF direction \in {"FORWARD", "BACK"} THEN 2 ELSE 1

fixed_axis(direction) == IF direction \in {"FORWARD", "BACK"} THEN 1 ELSE 2

progress_size_idx(direction) == IF direction \in {"FORWARD", "BACK"} THEN 2 ELSE 1

fixed_size_idx(direction) == IF direction \in {"FORWARD", "BACK"} THEN 1 ELSE 2

\* a faulty step_direction that is +1 for every direction
AlwaysForward(direction) == 1

step_direction(direction) == IF direction \in {"FORWARD", "RIGHT"} THEN 1 ELSE -1

\* lines 421-425: center + random.uniform(-offset_range, offset_range) on
\* the fixed axis, as <<num, den>>
SegRandomFixed(seg, size, k) ==
    UniformOffset(seg.start_pos[fixed_axis(seg.direction)],
                  seg.width - size[fixed_size_idx(seg.direction)], k)

\* lines 385-400: the first candidate of a block, snapped
SegFirstPos(seg, size, k) ==
    LET fa == fixed_axis(seg.direction)
        raw == [a \in 1..3 |->
                  IF a = fa /\ randomize_positions /\ blocks_generated > 0
                  THEN SegRandomFixed(seg, size, k)
                  ELSE <<current_progress[a], 1>>]
    IN  [a \in 1..3 |-> snap_to_grid(raw[a][1], raw[a][2])]

\* a faulty retry that also takes the cursor's progress coordinate anew,
\* unsnapped
SegRetryMovesAlong(seg, size, k) ==
    LET u == SegRandomFixed(seg, size, k)
        pa == progress_axis(seg.direction)
    IN  [block_pos EXCEPT ![fixed_axis(seg.direction)] = snap_to_grid(u[1], u[2]),
                          ![pa] = current_progress[pa] + 1]

\* lines 420-427: the candidate of a retry
SegRetryPos(seg, size, k) ==
    LET u == SegRandomFixed(seg, size, k)
    IN  [block_pos EXCEPT ![fixed_axis(seg.direction)] = snap_to_grid(u[1], u[2])]

\* a faulty loop condition that lets a segment go one past its quota
SegLoopInclusive == blocks_generated <= segment.blocks

\* the while condition of _generate_segment_blocks' main loop
SegLoopCond == blocks_generated < segment.blocks

\* a faulty line 437 that leaves out the corridor test
AttemptsOnly == attempts >= max_attempts

\* line 437: the block cannot be placed in this row
SegCannotPlace ==
    attempts >= max_attempts
        \/ ~is_position_in_corridor(segment, block_pos, block_size)

\* a faulty row end that leaves the cursor in place while the list is
\* empty
SegAdvanceNothingPlaced(seg, list, row_blocks) ==
    IF list # <<>>
    THEN (RowMaxSize(list, row_blocks, progress_size_idx(seg.direction))
             + spacing) * step_direction(seg.direction)
    ELSE 0

\* lines 455-463: the signed amount the cursor moves by when the row ends
SegRowAdvance(seg, list, row_blocks) ==
    IF list # <<>>
    THEN (RowMaxSize(list, row_blocks, progress_size_idx(seg.direction))
             + spacing) * step_direction(seg.direction)
    ELSE spacing * step_direction(seg.direction)

\* lines 466-471: the cursor has gone past the segment's end
PastSegmentEnd(seg, progress) ==
    LET pa == progress_axis(seg.direction)
    IN  IF step_direction(seg.direction) > 0
        THEN progress[pa] >= seg.end_pos[pa]
        ELSE progress[pa] <= seg.end_pos[pa]

\* lines 302-317: the chain, its positions, the empty result
PatternBegin ==
    /\ pc = "idle"
    /\ call = "generate_with_pattern"
    /\ segments' = ResolvePositions(ChainToLayOut, start_pos)
    /\ solids' = <<>>
    /\ seg_idx' = 0
    /\ rows_abandoned' = 0
    /\ pc' = "gen_loop"
    /\ UNCHANGED <<config, segment_solids, current_progress, blocks_generated,
                   current_row_blocks, blocks_in_current_row, block_size,
                   block_pos, rotation_angle, attempts, collision>>

\* lines 320-322 and 332-371: the call of _generate_segment_blocks
SegBegin ==
    /\ pc = "gen_loop"
    /\ seg_idx < Len(segments)
    /\ segment_solids' = <<>>
    /\ blocks_generated' = 0
    /\ current_progress' = segment.start_pos
    /\ current_row_blocks' = 0
    /\ IF seg_idx = 0
       THEN blocks_in_current_row' = 1
       ELSE blocks_in_current_row' \in RowSizeChoices
    /\ pc' = "seg_loop"
    /\ UNCHANGED <<config, segments, solids, seg_idx, block_size, block_pos,
                   rotation_angle, attempts, collision,
                   rows_abandoned>>

\* lines 373-417: size, position, snap, rotation, the corridor test and the
\* first collision test
SegSelect ==
    /\ pc = "seg_loop"
    /\ SegLoopCond
    /\ grid_size # 0
    /\ \E size \in BlockSizeChoices, k \in 0..DrawSteps, angle \in RotationChoices :
          /\ block_size' = size
          /\ block_pos' = SegFirstPos(segment, size, k)
          /\ rotation_angle' = angle
    /\ attempts' = 0
    /\ IF ~is_position_in_corridor(segment, block_pos', block_size')
       THEN /\ pc' = "seg_out"
            /\ collision' = FALSE
       ELSE /\ pc' = "seg_retry"
            /\ collision' = check_collision(block_pos', block_size',
                                solids \o segment_solids, rotation_angle')
    /\ UNCHANGED <<config, segments, solids, segment_solids, seg_idx,
                   current_progress, blocks_generated, current_row_blocks,
                   blocks_in_current_row,
                   rows_abandoned>>

\* line 396: snap_to_grid divides by a grid size of zero and the call ends
\* with ZeroDivisionError
SegRaises ==
    /\ pc = "seg_loop"
    /\ SegLoopCond
    /\ grid_size = 0
    /\ pc' = "raised"
    /\ UNCHANGED <<config, segments, solids, segment_solids, seg_idx,
                   current_progress, blocks_generated, current_row_blocks,
                   blocks_in_current_row, block_size, block_pos,
                   rotation_angle, attempts, collision, rows_abandoned>>

\* lines 419-435: one turn of the retry loop
SegRetry ==
    /\ pc = "seg_retry"
    /\ RetryCond
    /\ \E k \in 0..DrawSteps :
          block_pos' = SegRetryPos(segment, block_size, k)
    /\ IF ~is_position_in_corridor(segment, block_pos', block_size)
       THEN /\ pc' = "seg_break"
            /\ UNCHANGED <<collision, attempts>>
       ELSE /\ pc' = "seg_retry"
            /\ collision' = check_collision(block_pos', block_size,
                                solids \o segment_solids, rotation_angle)
            /\ attempts' = attempts + 1
    /\ UNCHANGED <<config, segments, solids, segment_solids, seg_idx,
                   current_progress, blocks_generated, current_row_blocks,
                   blocks_in_current_row, block_size, rotation_angle,
                   rows_abandoned>>

\* a row count that leaves the row open when the block was not placed
SegRowKeptOpen(placed) == IF placed THEN current_row_blocks + 1 ELSE current_row_blocks

\* lines 408, 439 and 450: current_row_blocks after the block was placed or
\* the row given up
SegRowBlocks(placed) == IF placed THEN current_row_blocks + 1 ELSE blocks_in_current_row

\* an id that counts the boxes of the running segment only
SegIdRestarts == Len(segment_solids) + IdOffset

\* line 443: the id of the box that is placed
SegSolidId == Len(solids) + Len(segment_solids) + IdOffset

\* lines 406-408 and 437-475: place the block or give the row up, then end
\* the row
SegPlace ==
    /\ \/ pc \in {"seg_out", "seg_break"}
       \/ pc = "seg_retry" /\ ~RetryCond
    /\ LET placed == pc # "seg_out" /\ ~SegCannotPlace
           row_blocks == SegRowBlocks(placed)
       IN  /\ segment_solids' =
                 IF placed
                 THEN Append(segment_solids,
                             Solid(SegSolidId, block_pos, block_size,
                                   rotation_angle))
                 ELSE segment_solids
           /\ blocks_generated' = IF placed THEN blocks_generated + 1
                                   ELSE blocks_generated
           /\ rows_abandoned' = IF placed THEN rows_abandoned
                                 ELSE rows_abandoned + 1
           /\ IF row_blocks >= blocks_in_current_row
              THEN /\ current_progress' =
                        [current_progress EXCEPT
                           ![progress_axis(segment.direction)] =
                               @ + SegRowAdvance(segment, segment_solids',
                                                 row_blocks)]
                   /\ IF PastSegmentEnd(segment, current_progress')
                      THEN /\ pc' = "seg_end"
                           /\ current_row_blocks' = row_blocks
                           /\ UNCHANGED blocks_in_current_row
                      ELSE /\ pc' = "seg_loop"
                           /\ blocks_in_current_row' \in RowSizeChoices
                           /\ current_row_blocks' = 0
              ELSE /\ pc' = "seg_loop"
                   /\ current_row_blocks' = row_blocks
                   /\ UNCHANGED <<current_progress, blocks_in_current_row>>
    /\ UNCHANGED <<config, segments, solids, seg_idx, block_size, block_pos,
                   rotation_angle, attempts, collision>>

\* lines 477 and 324: return solids; solids.extend(segment_solids)
SegReturn ==
    /\ \/ pc = "seg_end"
       \/ pc = "seg_loop" /\ ~SegLoopCond
    /\ solids' = solids \o segment_solids
    /\ seg_idx' = seg_idx + 1
    /\ pc' = "gen_loop"
    /\ UNCHANGED <<config, segments, segment_solids, current_progress,
                   blocks_generated, current_row_blocks,
                   blocks_in_current_row, block_size, block_pos,
                   rotation_angle, attempts, collision,
                   rows_abandoned>>

\* line 326: return solids
PatternReturn ==
    /\ pc = "gen_loop"
    /\ seg_idx >= Len(segments)
    /\ pc' = "done"
    /\ UNCHANGED <<config, segments, solids, segment_solids, seg_idx,
                   current_progress, blocks_generated, current_row_blocks,
                   blocks_in_current_row, block_size, block_pos,
                   rotation_angle, attempts, collision,
                   rows_abandoned>>


\* -------------------------------------------------------------- setters
\* the setters run while the caller configures the generator (pc = "setup")
\* Python max(a, b) and min(a, b)
Max(a, b) == IF b > a THEN b ELSE a

Min(a, b) == IF b < a THEN b ELSE a

\* a set_block_count that stores its argument as it is
SetBlockCountUnclamped(count) ==
    /\ pc = "setup"
    /\ block_count' = count
    /\ UNCHANGED <<start_pos, spacing, path_width, segment_length,
                   max_blocks_per_row, block_types, randomize_sizes,
                   randomize_positions, grid_size, path_pattern,
                   rotation_mode, shape_manager, call, segments, locals>>

\* lines 52-54
set_block_count(count) ==
    /\ pc = "setup"
    /\ block_count' = Max(1, count)
    /\ UNCHANGED <<start_pos, spacing, path_width, segment_length,
                   max_blocks_per_row, block_types, randomize_sizes,
                   randomize_positions, grid_size, path_pattern,
                   rotation_mode, shape_manager, call, segments, locals>>

\* lines 56-58
set_spacing(distance) ==
    /\ pc = "setup"
    /\ spacing' = Max(MinSpacing, distance)
    /\ UNCHANGED <<start_pos, block_count, path_width, segment_length,
                   max_blocks_per_row, block_types, randomize_sizes,
                   randomize_positions, grid_size, path_pattern,
                   rotation_mode, shape_manager, call, segments, locals>>

\* lines 70-72
set_path_width(width) ==
    /\ pc = "setup"
    /\ path_width' = Max(MinPathWidth, width)
    /\ UNCHANGED <<start_pos, block_count, spacing, segment_length,
                   max_blocks_per_row, block_types, randomize_sizes,
                   randomize_positions, grid_size, path_pattern,
                   rotation_mode, shape_manager, call, segments, locals>>

\* lines 78-80
set_max_blocks_per_row(max_blocks) ==
    /\ pc = "setup"
    /\ max_blocks_per_row' = Max(1, Min(max_blocks, MaxRowBlocks))
    /\ UNCHANGED <<start_pos, block_count, spacing, path_width,
                   segment_length, block_types, randomize_sizes,
                   randomize_positions, grid_size, path_pattern,
                   rotation_mode, shape_manager, call, segments, locals>>

\* lines 82-84
set_segment_length(length) ==
    /\ pc = "setup"
    /\ segment_length' = Max(MinSegmentLength, length)
    /\ UNCHANGED <<start_pos, block_count, spacing, path_width,
                   max_blocks_per_row, block_types, randomize_sizes,
                   randomize_positions, grid_size, path_pattern,
                   rotation_mode, shape_manager, call, segments, locals>>

\* a set_block_types that stores the list as given when it holds a known
\* name
SetBlockTypesUnfiltered(types) ==
    /\ pc = "setup"
    /\ LET valid_types == SelectSeq(types, LAMBDA t : t \in BlockTypeNames)
       IN  block_types' = IF valid_types # <<>> THEN types ELSE block_types
    /\ UNCHANGED <<start_pos, block_count, spacing, path_width,
                   segment_length, max_blocks_per_row, randomize_sizes,
                   randomize_positions, grid_size, path_pattern,
                   rotation_mode, shape_manager, call, segments, locals>>

\* lines 60-64: the names of types that BLOCK_SIZES knows, in their order;
\* they replace block_types unless there is none
set_block_types(types) ==
    /\ pc = "setup"
    /\ LET valid_types == SelectSeq(types, LAMBDA t : t \in BlockTypeNames)
       IN  block_types' = IF valid_types # <<>> THEN valid_types
                          ELSE block_types
    /\ UNCHANGED <<start_pos, block_count, spacing, path_width,
                   segment_length, max_blocks_per_row, randomize_sizes,
                   randomize_positions, grid_size, path_pattern,
                   rotation_mode, shape_manager, call, segments, locals>>

\* lines 90-92: the grid size is stored as it is
set_grid_size(grid) ==
    /\ pc = "setup"
    /\ grid_size' = grid
    /\ UNCHANGED <<start_pos, block_count, spacing, path_width,
                   segment_length, max_blocks_per_row, block_types,
                   randomize_sizes, randomize_positions, path_pattern,
                   rotation_mode, shape_manager, call, segments, locals>>

\* the caller is done configuring and goes on to call the generator
\* (MainWindow.on_generate after its setter calls)
Configured ==
    /\ pc = "setup"
    /\ pc' = "idle"
    /\ UNCHANGED <<config, segments, solids, segment_solids, seg_idx,
                   current_progress, blocks_generated, current_row_blocks,
                   blocks_in_current_row, block_size, block_pos,
                   rotation_angle, attempts, collision, rows_abandoned>>

\* ------------------------------------------------------- configurations
NoShapeManager == [set |-> FALSE, shapes |-> <<>>]

\* ShapeManager._initialize_default_shapes, the entries whose multiplier
\* differs: Square (1, 1) and Rectangle (1, 2) are enabled, Oval (1, 1.5)
\* is not; multipliers are kept doubled
DefaultShapeManager ==
    [set |-> TRUE,
     shapes |-> << [enabled |-> TRUE, size_multiplier |-> <<2, 2>>],
                   [enabled |-> TRUE, size_multiplier |-> <<2, 4>>],
                   [enabled |-> FALSE, size_multiplier |-> <<2, 3>>] >>]

\* PathGenerator.__init__, with the attributes the scenarios set through
\* the setters
Generator(method, start, count, space, width, types, rand_sizes, rand_pos, grid, pattern, chain, rotation, manager) ==
    [call |-> method, start_pos |-> start, block_count |-> count, spacing |-> space,
     path_width |-> width, segment_length |-> MinSegmentLength,
     max_blocks_per_row |-> 2, block_types |-> types,
     randomize_sizes |-> rand_sizes, randomize_positions |-> rand_pos,
     grid_size |-> grid, path_pattern |-> pattern, segments |-> chain,
     rotation_mode |-> rotation, shape_manager |-> manager]

\* generators set up for generate_straight_line: one fixed type in a wide
\* band; three turned boxes; a start off the grid with a type wider than
\* the band; the shape catalog without random positions; two small boxes
\* on a grid coarser than a row advance
FlatScenarios ==
    { Generator("generate_straight_line", <<0, 0, 0>>, n, MinSpacing, 256,
                <<"medium", "large">>, FALSE, TRUE, 32, "STRAIGHT", <<>>,
                "NONE", NoShapeManager) : n \in {1, MaxBlocks} }
    \cup
    { Generator("generate_straight_line", <<0, 0, 0>>, 3, MinSpacing,
                256, <<"medium">>, TRUE, TRUE, 32, "STRAIGHT", <<>>,
                "FULL_RANDOM", NoShapeManager),
      Generator("generate_straight_line", <<10, 7, 5>>, MaxBlocks, 70,
                MinPathWidth, <<"wide">>, TRUE, TRUE, 16, "STRAIGHT", <<>>,
                "NONE", NoShapeManager),
      Generator("generate_straight_line", <<0, 0, 0>>, MaxBlocks, MinSpacing,
                256, <<"medium">>, TRUE, FALSE, 64, "STRAIGHT", <<>>,
                "NONE", DefaultShapeManager),
      Generator("generate_straight_line", <<0, 0, 0>>, 2, MinSpacing,
                1024, <<"small">>, FALSE, TRUE, 256, "STRAIGHT", <<>>,
                "NONE", NoShapeManager) }

\* custom chains as MainWindow.on_generate builds them, of segments of one
\* width
TurnBackChain(width, quota) ==
    << PathSegment("BACK", 300, width, quota),
       PathSegment("LEFT", 0, width, quota),
       PathSegment("LEFT", 200, width, quota) >>

ShortTurnChain(width, quota) ==
    << PathSegment("FORWARD", 100, width, 1),
       PathSegment("RIGHT", 200, width, quota) >>

\* generators set up for generate_with_pattern: two built-in patterns; a
\* short turn whose second corridor reaches back over the first; a chain
\* that runs backward from a start off the grid, also with segments of no
\* width (the path width itself is never below MinPathWidth); a corridor
\* narrower than one of the two types; a straight corridor of the least
\* width for one medium type, with and without random positions
PatternScenarios ==
    { Generator("generate_with_pattern", <<0, 0, 0>>, MaxBlocks + 1,
                MinSpacing, 256, <<"small">>, TRUE, TRUE, 32, "RIGHT_TURN",
                <<>>, "NONE", NoShapeManager),
      Generator("generate_with_pattern", <<0, 0, 0>>, MaxBlocks + 2,
                MinSpacing, MinPathWidth, <<"small">>, TRUE, TRUE, 32,
                "ZIGZAG", <<>>, "PRIORITY_STRAIGHT", NoShapeManager),
      Generator("generate_with_pattern", <<0, 0, 0>>, 1, MinSpacing, 256,
                <<"small">>, TRUE, TRUE, 32, "CUSTOM",
                ShortTurnChain(256, MaxBlocks), "NONE", NoShapeManager),
      Generator("generate_with_pattern", <<0, 0, 0>>, 1, MinSpacing,
                MinPathWidth, <<"small", "wide">>, TRUE, TRUE, 32, "CUSTOM",
                << PathSegment("FORWARD", 200, MinPathWidth, MaxBlocks) >>,
                "NONE", NoShapeManager) }
    \cup
    { Generator("generate_with_pattern", <<10, 7, 5>>, 1, 70,
                Max(MinPathWidth, width), <<"small">>, TRUE, TRUE, 64, "CUSTOM",
                TurnBackChain(width, MaxBlocks), "NONE", NoShapeManager) :
        width \in {0, 256} }
    \cup
    { Generator("generate_with_pattern", <<0, 0, 0>>, 2, MinSpacing,
                MinPathWidth, <<"medium">>, FALSE, rand_pos, 32, "STRAIGHT",
                <<>>, "NONE", NoShapeManager) :
        rand_pos \in BOOLEAN }

Scenarios == FlatScenarios \cup PatternScenarios

\* a generator of S, constructed and configured, with the caller at "at"
Constructed(S, at) ==
    /\ \E g \in S :
          /\ start_pos = g.start_pos
          /\ block_count = g.block_count
          /\ spacing = g.spacing
          /\ path_width = g.path_width
          /\ segment_length = g.segment_length
          /\ max_blocks_per_row = g.max_blocks_per_row
          /\ block_types = g.block_types
          /\ randomize_sizes = g.randomize_sizes
          /\ randomize_positions = g.randomize_positions
          /\ grid_size = g.grid_size
          /\ path_pattern = g.path_pattern
          /\ segments = g.segments
          /\ rotation_mode = g.rotation_mode
          /\ shape_manager = g.shape_manager
          /\ call = g.call
    /\ pc = at
    /\ solids = <<>>
    /\ segment_solids = <<>>
    /\ seg_idx = 0
    /\ current_progress = <<0, 0, 0>>
    /\ blocks_generated = 0
    /\ current_row_blocks = 0
    /\ blocks_in_current_row = 1
    /\ block_size = <<0, 0, 0>>
    /\ block_pos = <<0, 0, 0>>
    /\ rotation_angle = 0
    /\ attempts = 0
    /\ collision = FALSE
    /\ rows_abandoned = 0

InitFrom(S) == Constructed(S, "idle")

Init == InitFrom(Scenarios)

Next ==
    \/ FlatBegin
    \/ FlatSelect
    \/ FlatRetry
    \/ FlatPlace
    \/ FlatReturn
    \/ PatternBegin
    \/ SegBegin
    \/ SegSelect
    \/ SegRetry
    \/ SegPlace
    \/ SegReturn
    \/ PatternReturn

Spec == Init /\ [][Next]_vars

\* a generation call runs to its end: no step is put off for ever
FairSpec == Spec /\ WF_vars(Next)

\* ------------------------------------------------------ configuration
\* generators that the caller is still configuring, one for each
\* generation method
SetupScenarios ==
    { Generator(method, <<0, 0, 0>>, 1, MinSpacing, MinPathWidth,
                <<"medium">>, TRUE, TRUE, 32, "RIGHT_TURN", <<>>, "NONE",
                NoShapeManager) :
        method \in {"generate_straight_line", "generate_with_pattern"} }

\* the arguments the caller hands to the setters: below, at and above the
\* least value of each parameter
CountArgs == {-3, 0, 2}

SpacingArgs == {-1, 49, 60}

WidthArgs == {0, 127, 256}

RowArgs == {-2, 0, 3, 11}

LengthArgs == {0, 399, 500}

TypeArgs ==
    { <<>>, <<"huge">>, <<"tiny", "wide", "huge", "small">>, <<"medium">> }

GridArgs == {-32, 0, 16}

ConfigInit == InitFrom(Scenarios) \/ Constructed(SetupScenarios, "setup")

ConfigNext ==
    \/ \E count \in CountArgs : set_block_count(count)
    \/ \E distance \in SpacingArgs : set_spacing(distance)
    \/ \E width \in WidthArgs : set_path_width(width)
    \/ \E max_blocks \in RowArgs : set_max_blocks_per_row(max_blocks)
    \/ \E length \in LengthArgs : set_segment_length(length)
    \/ \E types \in TypeArgs : set_block_types(types)
    \/ \E grid \in GridArgs : set_grid_size(grid)
    \/ Configured
    \/ FlatRaises
    \/ SegRaises
    \/ Next

\* configuration through the setters, then a generation call
ConfigSpec == ConfigInit /\ [][ConfigNext]_vars

\* ------------------------------------------------- the pattern builder
\* generators whose first generate_with_pattern call builds the chain of
\* every pattern, from every block count up to MaxTotalBlocks, an even and
\* an odd segment length and two path widths
BuilderScenarios ==
    { [ Generator("generate_with_pattern", <<0, 0, 0>>, n, MinSpacing, width,
                  <<"small">>, TRUE, TRUE, 32, pattern, <<>>, "NONE",
                  NoShapeManager) EXCEPT !.segment_length = length ] :
        n \in 1..MaxTotalBlocks, width \in {MinPathWidth, 512},
        length \in {MinSegmentLength, 401, 800},
        pattern \in {"STRAIGHT", "RIGHT_TURN", "LEFT_TURN", "S_CURVE",
                     "ZIGZAG", "CUSTOM"} }

BuilderInit == InitFrom(BuilderScenarios)

\* the first lines of generate_with_pattern, where create_pattern is called
BuilderSpec == BuilderInit /\ [][PatternBegin]_vars


\* ---------------------------------------------- a generator used again
\* lines 86-88: the pattern is stored; self.segments is left alone
set_path_pattern(pattern) ==
    /\ pc = "setup"
    /\ path_pattern' = pattern
    /\ UNCHANGED <<start_pos, block_count, spacing, path_width,
                   segment_length, max_blocks_per_row, block_types,
                   randomize_sizes, randomize_positions, grid_size,
                   rotation_mode, shape_manager, call, segments, locals>>

\* MainWindow.on_generate in "Preset Pattern" mode, after its setter
\* calls: self.generator.segments = [], set_path_pattern, and then the
\* call of generate_with_pattern
on_generate_preset(pattern) ==
    /\ pc = "setup"
    /\ call = "generate_with_pattern"
    /\ segments' = <<>>
    /\ path_pattern' = pattern
    /\ pc' = "idle"
    /\ UNCHANGED <<start_pos, block_count, spacing, path_width,
                   segment_length, max_blocks_per_row, block_types,
                   randomize_sizes, randomize_positions, grid_size,
                   rotation_mode, shape_manager, call, solids,
                   segment_solids, seg_idx, current_progress,
                   blocks_generated, current_row_blocks,
                   blocks_in_current_row, block_size, block_pos,
                   rotation_angle, attempts, collision, rows_abandoned>>

\* the call has returned and its locals are gone; the caller keeps the
\* generator, with self.segments as the call left it, and configures it
\* for another call
CallAgain ==
    /\ pc = "done"
    /\ pc' = "setup"
    /\ solids' = <<>>
    /\ segment_solids' = <<>>
    /\ seg_idx' = 0
    /\ current_progress' = <<0, 0, 0>>
    /\ blocks_generated' = 0
    /\ current_row_blocks' = 0
    /\ blocks_in_current_row' = 1
    /\ block_size' = <<0, 0, 0>>
    /\ block_pos' = <<0, 0, 0>>
    /\ rotation_angle' = 0
    /\ attempts' = 0
    /\ collision' = FALSE
    /\ rows_abandoned' = 0
    /\ UNCHANGED <<config, segments>>

\* a generator that the caller configures for the segmented mode, with no
\* custom chain
ReuseScenarios ==
    { Generator("generate_with_pattern", <<0, 0, 0>>, 1, MinSpacing,
                MinPathWidth, <<"small">>, FALSE, TRUE, 32, "STRAIGHT", <<>>,
                "NONE", NoShapeManager) }

\* the arguments of the calls between two generations; the quotas are so
\* small that every row holds one box, and no candidate collides
ReusePatterns == {"STRAIGHT", "RIGHT_TURN", "ZIGZAG"}

ReuseCounts == {1, 2}

ReuseLengths == {400, 800}

ReuseWidths == {128, 256}

ReuseInit == Constructed(ReuseScenarios, "setup")

ReuseNext ==
    \/ \E pattern \in ReusePatterns : set_path_pattern(pattern)
    \/ \E count \in ReuseCounts : set_block_count(count)
    \/ \E length \in ReuseLengths : set_segment_length(length)
    \/ \E width \in ReuseWidths : set_path_width(width)
    \/ \E pattern \in ReusePatterns : on_generate_preset(pattern)
    \/ Configured
    \/ PatternBegin
    \/ SegBegin
    \/ SegSelect
    \/ SegPlace
    \/ SegReturn
    \/ PatternReturn
    \/ CallAgain

\* one generator that is configured, called, configured again and called
\* again, any number of times
ReuseSpec == ReuseInit /\ [][ReuseNext]_vars

\* ======================================================== properties
\* the list the running call has built so far; at "done" the returned list
AllSolids ==
    IF pc \in {"seg_loop", "seg_out", "seg_retry", "seg_break", "seg_end"}
    THEN solids \o segment_solids
    ELSE solids

Returned == pc = "done"

InFlatRun == pc \in {"flat_loop", "flat_retry"}

InSegmentRun == pc \in {"seg_loop", "seg_out", "seg_retry", "seg_break", "seg_end"}

\* the segment whose list segment_solids is: the one being laid out, or
\* the one _generate_segment_blocks returned last
ListSegment == IF InSegmentRun THEN segments[seg_idx + 1] ELSE segments[seg_idx]

HasListSegment ==
    /\ call = "generate_with_pattern"
    /\ pc # "idle"
    /\ IF InSegmentRun THEN TRUE ELSE seg_idx >= 1

\* the last turn of the main loop placed its candidate after at least one
\* collision retry
PlacedAfterRetry(list) ==
    /\ list # <<>>
    /\ list[Len(list)].pos = block_pos
    /\ list[Len(list)].size = block_size
    /\ ~collision
    /\ attempts >= 1
    /\ attempts < max_attempts

\* The bounding box of a box as the no-overlap property reads it, times
\* BoundScale: centre -/+ half of (w|cos| + l|sin|, w|sin| + l|cos|); for
\* an unrotated box these are its min and max corners.
AABB(b) ==
    LET c == CosNum(b.rotation_z)
        sn == Abs(SinNum(b.rotation_z))
        cx == (BoundScale * b.pos[1]) + (RotDen * b.size[1])
        cy == (BoundScale * b.pos[2]) + (RotDen * b.size[2])
        hx == b.size[1] * c + b.size[2] * sn
        hy == b.size[1] * sn + b.size[2] * c
    IN  [min_x |-> cx - hx, max_x |-> cx + hx,
         min_y |-> cy - hy, max_y |-> cy + hy,
         min_z |-> b.pos[3], max_z |-> b.pos[3] + b.size[3]]

Overlap(a, b) ==
    /\ AABB(a).min_x < AABB(b).max_x /\ AABB(b).min_x < AABB(a).max_x
    /\ AABB(a).min_y < AABB(b).max_y /\ AABB(b).min_y < AABB(a).max_y
    /\ AABB(a).min_z < AABB(b).max_z /\ AABB(b).min_z < AABB(a).max_z

\* C1: no two distinct boxes of the list a call builds and returns (flat
\* or segmented, under every rotation mode, boxes of different segments
\* included) have bounding boxes that strictly overlap on X, Y and Z.
C1_NoOverlap ==
    \A i, j \in DOMAIN AllSolids :
        i < j => ~Overlap(AllSolids[i], AllSolids[j])

\* C1 witness: in a later segment a candidate was rejected because it
\* overlaps a box of an earlier segment, and is being retried.
C1_Witness ==
    /\ pc = "seg_retry"
    /\ seg_idx >= 1
    /\ collision
    /\ solids # <<>>
    /\ segment_solids # <<>>
    /\ ~check_collision(block_pos, block_size, segment_solids, rotation_angle)

\* C2: every box of the list _generate_segment_blocks builds and returns
\* for a segment passes that segment's is_position_in_corridor test at its
\* final position and size, boxes moved by collision retries included.
C2_CorridorContainment ==
    HasListSegment =>
        \A i \in DOMAIN segment_solids :
            is_position_in_corridor(ListSegment, segment_solids[i].pos,
                                    segment_solids[i].size)

\* C2 witness: a segment's list whose last box was placed after retries
\* changed its position.
C2_Witness ==
    /\ pc = "seg_loop"
    /\ PlacedAfterRetry(segment_solids)

\* C3: every box of either mode has x, y and z that are exact multiples of
\* the grid size, also from a start and a cursor off the grid and after
\* collision retries.
C3_GridSnap ==
    \A i \in DOMAIN AllSolids :
        \A a \in 1..3 : AllSolids[i].pos[a] % grid_size = 0

\* C3 witness: start and cursor are off the grid and the last box was
\* placed after retries.
C3_Witness ==
    /\ \E a \in 1..3 : start_pos[a] % grid_size # 0
    /\ \E a \in 1..3 : current_progress[a] % grid_size # 0
    /\ PlacedAfterRetry(AllSolids)
    /\ Len(AllSolids) >= 2

RECURSIVE SumBlocks(_)
SumBlocks(chain) ==
    IF chain = <<>> THEN 0 ELSE Head(chain).blocks + SumBlocks(Tail(chain))

\* the chain is the one create_pattern builds for the generator's pattern
IsBuiltInChain ==
    segments = ResolvePositions(
                   create_pattern(path_pattern, block_count, segment_length,
                                  path_width), start_pos)

\* C4: generate_straight_line returns at most block_count boxes; a segment
\* contributes at most its quota, so generate_with_pattern returns at most
\* the sum of the quotas, which for a built-in pattern is at most
\* block_count.
C4_QuotaBound ==
    /\ call = "generate_straight_line" => Len(solids) <= block_count
    /\ HasListSegment => Len(segment_solids) <= ListSegment.blocks
    /\ (call = "generate_with_pattern" /\ pc # "idle") =>
          /\ Len(AllSolids) <= SumBlocks(segments)
          /\ IsBuiltInChain => Len(AllSolids) <= block_count

\* C4 witness: a built-in pattern returned as many boxes as its quotas
\* allow, which is fewer than block_count.
C4_Witness ==
    /\ Returned
    /\ call = "generate_with_pattern"
    /\ IsBuiltInChain
    /\ Len(solids) = SumBlocks(segments)
    /\ Len(solids) >= 2
    /\ Len(solids) < block_count


FlatCall == call = "generate_straight_line"

PatternCall == call = "generate_with_pattern"

\* a step that ends one turn of a main loop: the block was placed or the
\* row was given up
LoopTurnEnds ==
    /\ pc \in {"flat_retry", "seg_out", "seg_break", "seg_retry"}
    /\ pc' \in {"flat_loop", "seg_loop", "seg_end"}

\* C5, the run: a flat call returns, and then holds block_count boxes
C5_Returns ==
    (FlatCall /\ pc = "idle") ~> (Returned /\ Len(solids) = block_count)

\* C5, the returned list always has exactly block_count boxes
C5_ExactCount == [](FlatCall /\ Returned => Len(solids) = block_count)

\* C5, a row given up: the list is unchanged, the cursor moves forward
\* and the loop goes on
C5_AbandonStep ==
    (FlatCall /\ rows_abandoned' # rows_abandoned /\ pc # "idle") =>
        /\ solids' = solids
        /\ current_progress'[2] > current_progress[2]
        /\ pc' = "flat_loop"
        /\ blocks_generated' < block_count

\* C5: generate_straight_line terminates for every setter-reachable
\* configuration and every sequence of draws, and returns exactly
\* block_count boxes; a row abandoned after exhausted retries only moves
\* the cursor forward and never ends the run early.
C5_FlatTermination ==
    /\ C5_Returns
    /\ C5_ExactCount
    /\ [][C5_AbandonStep]_vars

\* C5 witness: a flat call returned all its boxes after giving up a row.
C5_Witness ==
    /\ FlatCall
    /\ Returned
    /\ rows_abandoned > 0
    /\ Len(solids) = block_count

\* the direction of travel read from the direction's name
TravelSign(direction) == IF direction \in {"LEFT", "BACK"} THEN -1 ELSE 1

TravelAxis(direction) == IF direction \in {"LEFT", "RIGHT"} THEN 1 ELSE 2

\* the cursor is at or past the end of the segment in the travel direction
ReachedEnd(seg, progress) ==
    TravelSign(seg.direction) * (progress[TravelAxis(seg.direction)]
                                   - seg.end_pos[TravelAxis(seg.direction)]) >= 0

\* C6, a turn of a segment's loop places a box or moves the cursor
C6_TurnStep ==
    (PatternCall /\ LoopTurnEnds) =>
        \/ Len(segment_solids') = Len(segment_solids) + 1
        \/ current_progress' # current_progress

\* C6, a cursor that reaches the end stops the segment; the list built so
\* far is what the segment contributes
C6_EndStep ==
    /\ (PatternCall /\ LoopTurnEnds /\ current_progress' # current_progress
           /\ ReachedEnd(segment, current_progress')) => pc' = "seg_end"
    /\ (pc = "seg_end") => (pc' = "gen_loop" /\ solids' = solids \o segment_solids)

\* C6, the loop of a segment runs on only before the cursor has reached
\* the end; a cursor still on its start has not been compared yet
C6_BeforeEnd ==
    (InSegmentRun /\ pc # "seg_end" /\ ReachedEnd(segment, current_progress))
        => current_progress = segment.start_pos

\* C6, a segment without length or without width contributes nothing
C6_EmptySegment ==
    (HasListSegment /\ (ListSegment.length = 0 \/ ListSegment.width = 0))
        => segment_solids = <<>>

\* C6: generate_with_pattern terminates for every finite chain and every
\* sequence of draws; each turn of a segment's loop places a box or
\* advances the cursor, a segment stops as soon as the cursor reaches or
\* passes its end even with its quota unmet, and a zero-length or
\* zero-width segment contributes an empty list.
C6_PatternTermination ==
    /\ (PatternCall /\ pc = "idle") ~> Returned
    /\ [][C6_TurnStep /\ C6_EndStep]_vars
    /\ [](C6_BeforeEnd /\ C6_EmptySegment)

\* C6 witness: a chain with a zero-length segment returned boxes, fewer
\* than its quotas.
C6_Witness ==
    /\ PatternCall
    /\ Returned
    /\ \E i \in DOMAIN segments : segments[i].length = 0 /\ segments[i].blocks > 0
    /\ solids # <<>>
    /\ Len(solids) < SumBlocks(segments)

\* the travel direction and axis of the running call
RunSign == IF FlatCall THEN 1 ELSE TravelSign(segment.direction)

RunAxis == IF FlatCall THEN 2 ELSE TravelAxis(segment.direction)

\* C8, one step inside a flat run or a segment
C8_CursorStep ==
    ((InFlatRun \/ InSegmentRun) /\ pc' # "gen_loop" /\ pc' # "done") =>
        /\ \A a \in 1..3 : a # RunAxis => current_progress'[a] = current_progress[a]
        /\ RunSign * (current_progress'[RunAxis] - current_progress[RunAxis]) >= 0
        /\ (LoopTurnEnds /\ (current_row_blocks' = 0 \/ pc' = "seg_end")) =>
              RunSign * (current_progress'[RunAxis] - current_progress[RunAxis]) > 0

\* C8: within a segment and within a flat run every row advancement moves
\* the cursor strictly in the travel direction (up for FORWARD, RIGHT and
\* flat mode, down for LEFT and BACK); the cursor never moves backward and
\* its other two coordinates never change.
C8_MonotonicCursor == [][C8_CursorStep]_vars

\* C8 witness: in a LEFT or BACK segment a box is in the list and the
\* cursor is below the segment's start.
C8_Witness ==
    /\ pc = "seg_loop"
    /\ segment.direction \in {"LEFT", "BACK"}
    /\ segment_solids # <<>>
    /\ current_progress[RunAxis] < segment.start_pos[RunAxis]

\* the extent of a footprint across the corridor of a segment
AcrossExtent(seg, size) == size[IF TravelAxis(seg.direction) = 1 THEN 2 ELSE 1]

\* C9, no box of a segment's list is wider than the corridor, and a
\* corridor narrower than every candidate footprint leaves the list empty
C9_NoWideBox ==
    HasListSegment =>
        /\ \A i \in DOMAIN segment_solids :
              AcrossExtent(ListSegment, segment_solids[i].size) <= ListSegment.width
        /\ (\A size \in BlockSizeChoices :
              AcrossExtent(ListSegment, size) > ListSegment.width)
              => segment_solids = <<>>

\* C9, a footprint wider than the corridor fails containment at once and
\* the row is given up with nothing placed
C9_WideStep ==
    /\ (pc = "seg_loop" /\ pc' # "gen_loop"
           /\ AcrossExtent(segment, block_size') > segment.width)
          => pc' = "seg_out"
    /\ (pc = "seg_out") =>
          /\ segment_solids' = segment_solids
          /\ current_progress' # current_progress

\* C9: a footprint whose extent across the corridor exceeds the segment's
\* width is never placed in it: its attempt fails containment and the row
\* is abandoned, and a segment narrower than every candidate footprint
\* returns no box.
C9_WideFootprint == []C9_NoWideBox /\ [][C9_WideStep]_vars

\* C9 witness: a segment that already holds a box gives up a row for a
\* footprint wider than its corridor.
C9_Witness ==
    /\ pc = "seg_out"
    /\ AcrossExtent(segment, block_size) > segment.width
    /\ segment_solids # <<>>

\* where the first box of a flat run goes for a footprint of width w
FirstBoxPos(w) ==
    << RoundHalfEven(2 * start_pos[1] - w, 2 * grid_size) * grid_size,
       RoundHalfEven(start_pos[2], grid_size) * grid_size,
       RoundHalfEven(start_pos[3], grid_size) * grid_size >>

\* C10: in flat mode the first box is placed without retries at
\* (snap(start_x - w/2), snap(start_y), snap(start_z)) for its footprint's
\* width w, whatever the randomize-position setting; block_count = 1 from
\* start (0, 0, 0) returns exactly that box, at (snap(-w/2), 0, 0).
C10_FirstFlatBox ==
    FlatCall =>
        /\ (pc = "flat_retry" /\ solids = <<>>) =>
              /\ ~collision
              /\ attempts = 0
              /\ block_pos = FirstBoxPos(block_size[1])
        /\ (pc # "idle" /\ solids # <<>>) =>
              solids[1].pos = FirstBoxPos(solids[1].size[1])
        /\ (InFlatRun /\ solids = <<>>) => rows_abandoned = 0
        /\ (Returned /\ block_count = 1 /\ start_pos = <<0, 0, 0>>) =>
              /\ Len(solids) = 1
              /\ solids[1].pos[2] = 0
              /\ solids[1].pos[3] = 0

\* C10 witness: with position randomization on, a one-box run from the
\* origin returned its box at the snapped centred place.
C10_Witness ==
    /\ FlatCall
    /\ Returned
    /\ randomize_positions
    /\ block_count = 1
    /\ start_pos = <<0, 0, 0>>
    /\ solids[1].pos = <<-64, 0, 0>>


\* ------------------------------------------------- C11: fixed topology
\* the legs a pattern is specified to have, as <<direction, num, den>>:
\* a leg is num/den of the segment length long
Topology(pattern) ==
    CASE pattern = "STRAIGHT" -> << <<"FORWARD", 3, 1>> >>
      [] pattern = "RIGHT_TURN" -> << <<"FORWARD", 1, 1>>, <<"RIGHT", 1, 1>> >>
      [] pattern = "LEFT_TURN" -> << <<"FORWARD", 1, 1>>, <<"LEFT", 1, 1>> >>
      [] pattern = "S_CURVE" ->
            << <<"FORWARD", 1, 1>>, <<"RIGHT", 1, 1>>, <<"FORWARD", 1, 1>> >>
      [] pattern = "ZIGZAG" ->
            << <<"FORWARD", 1, 1>>, <<"RIGHT", 1, 2>>, <<"LEFT", 1, 2>>,
               <<"FORWARD", 1, 1>> >>
      [] OTHER -> <<>>

\* what create_pattern returns for the generator's parameters
BuiltChain ==
    create_pattern(path_pattern, block_count, segment_length, path_width)

\* the chain of the running call was built by create_pattern
ChainWasBuilt == pc = "gen_loop" /\ Len(segments) = Len(BuiltChain)

\* C11: create_pattern returns exactly the legs of the pattern, in order,
\* each with the specified direction, a length that is exactly the
\* specified fraction of segment_length (the middle legs of ZIGZAG exactly
\* half of it), the corridor width, and start and end left at (0, 0, 0);
\* CUSTOM yields the empty list; the call lays out that chain
C11_FixedTopology ==
    pc = "gen_loop" =>
        LET legs == Topology(path_pattern)
        IN  /\ Len(BuiltChain) = Len(legs)
            /\ Len(segments) = Len(legs)
            /\ \A i \in 1..Len(legs) :
                  /\ BuiltChain[i].start_pos = <<0, 0, 0>>
                  /\ BuiltChain[i].end_pos = <<0, 0, 0>>
                  /\ segments[i].direction = legs[i][1]
                  /\ segments[i].length * legs[i][3] = segment_length * legs[i][2]
                  /\ segments[i].width = path_width

\* ---------------------------------------------------- C12: block shares
\* C12: every segment of an N-segment built-in pattern has the quota
\* floor(block_count / N); the quotas sum to at most block_count and fall
\* short of it by at most N - 1
C12_FloorShares ==
    (ChainWasBuilt /\ path_pattern # "CUSTOM") =>
        LET n == Len(segments)
        IN  /\ n = Len(Topology(path_pattern))
            /\ \A i \in 1..n :
                  /\ segments[i].blocks * n <= block_count
                  /\ block_count < (segments[i].blocks + 1) * n
            /\ SumBlocks(segments) <= block_count
            /\ block_count - SumBlocks(segments) <= n - 1

\* a zigzag whose four shares leave three blocks over
C12_Witness ==
    /\ pc = "gen_loop"
    /\ path_pattern = "ZIGZAG"
    /\ Len(segments) = 4
    /\ block_count - SumBlocks(segments) = 3
    /\ \A i \in 1..4 : segments[i].blocks = 1


\* ------------------------------------------------ C13: segment chaining
\* the unit step of a direction, as <<dx, dy, dz>>
Heading(direction) ==
    CASE direction = "FORWARD" -> <<0, 1, 0>>
      [] direction = "BACK" -> <<0, -1, 0>>
      [] direction = "RIGHT" -> <<1, 0, 0>>
      [] direction = "LEFT" -> <<-1, 0, 0>>

\* C13: once generate_with_pattern has laid out its chain, the first
\* segment starts at the generator's start position, every later segment
\* starts where the one before it ends, and every segment ends at its
\* start moved by its length along its direction, the other two
\* coordinates unchanged
C13_SegmentChaining ==
    (PatternCall /\ pc # "idle") =>
        \A i \in 1..Len(segments) :
            /\ segments[i].start_pos =
                  IF i = 1 THEN start_pos ELSE segments[i - 1].end_pos
            /\ \A c \in 1..3 :
                  segments[i].end_pos[c] =
                      segments[i].start_pos[c]
                          + segments[i].length * Heading(segments[i].direction)[c]

\* a finished call on a chain that runs back and then turns left twice,
\* from a start away from the origin
C13_Witness ==
    /\ PatternCall
    /\ pc = "done"
    /\ start_pos = <<10, 7, 5>>
    /\ Len(segments) = 3
    /\ segments[1].direction = "BACK"
    /\ segments[3].direction = "LEFT"
    /\ segments[3].end_pos = <<-190, -293, 5>>


\* ------------------------------------------------- C14: setter clamps
\* the configuration parameters of the generator, by name
Attributes ==
    [start_pos |-> start_pos, block_count |-> block_count,
     spacing |-> spacing, path_width |-> path_width,
     segment_length |-> segment_length,
     max_blocks_per_row |-> max_blocks_per_row, block_types |-> block_types,
     randomize_sizes |-> randomize_sizes,
     randomize_positions |-> randomize_positions, grid_size |-> grid_size,
     path_pattern |-> path_pattern, rotation_mode |-> rotation_mode,
     shape_manager |-> shape_manager]

\* the step changes no parameter but the named one
OnlyChanges(name) ==
    \A other \in DOMAIN Attributes \ {name} :
        Attributes'[other] = Attributes[other]

\* the least value at or above low that is value, else low
AtLeast(low, value) == IF value < low THEN low ELSE value

\* the parameters are within their limits
C14_WithinLimits ==
    /\ block_count >= 1
    /\ spacing >= 50
    /\ path_width >= 128
    /\ segment_length >= 400
    /\ max_blocks_per_row >= 1
    /\ max_blocks_per_row <= 10

\* a call of one of the five clamping setters stores the clamped argument
\* and changes no other parameter
C14_SetterStep ==
    /\ \A v \in CountArgs :
          set_block_count(v) =>
              block_count' = AtLeast(1, v) /\ OnlyChanges("block_count")
    /\ \A v \in SpacingArgs :
          set_spacing(v) => spacing' = AtLeast(50, v) /\ OnlyChanges("spacing")
    /\ \A v \in WidthArgs :
          set_path_width(v) =>
              path_width' = AtLeast(128, v) /\ OnlyChanges("path_width")
    /\ \A v \in LengthArgs :
          set_segment_length(v) =>
              /\ segment_length' = AtLeast(400, v)
              /\ OnlyChanges("segment_length")
    /\ \A v \in RowArgs :
          set_max_blocks_per_row(v) =>
              /\ max_blocks_per_row' = (IF v > 10 THEN 10 ELSE AtLeast(1, v))
              /\ OnlyChanges("max_blocks_per_row")

\* while the caller configures, every clamping setter accepts every
\* argument
C14_SettersAccept ==
    pc = "setup" =>
        /\ \A v \in CountArgs : ENABLED set_block_count(v)
        /\ \A v \in SpacingArgs : ENABLED set_spacing(v)
        /\ \A v \in WidthArgs : ENABLED set_path_width(v)
        /\ \A v \in LengthArgs : ENABLED set_segment_length(v)
        /\ \A v \in RowArgs : ENABLED set_max_blocks_per_row(v)

\* C14: in every generator state block_count >= 1, spacing >= 50,
\* path_width >= 128, segment_length >= 400 and 1 <= max_blocks_per_row
\* <= 10; each of the five setters accepts every argument, stores it
\* clamped to these limits and changes no other parameter
C14_SetterClamps ==
    /\ [](C14_WithinLimits /\ C14_SettersAccept)
    /\ [][C14_SetterStep]_vars

\* a generator whose five parameters were all set to values above their
\* least ones, max_blocks_per_row to its largest
C14_Witness ==
    /\ pc = "setup"
    /\ block_count = 2
    /\ spacing = 60
    /\ path_width = 256
    /\ segment_length = 500
    /\ max_blocks_per_row = 10


\* --------------------------------------------------- C15: block types
KnownNames == {"small", "medium", "large", "long", "wide"}

RECURSIVE KnownOf(_)
\* the known names of a list, in the order of the list
KnownOf(types) ==
    IF types = <<>> THEN <<>>
    ELSE IF Head(types) \in KnownNames
         THEN <<Head(types)>> \o KnownOf(Tail(types))
         ELSE KnownOf(Tail(types))

\* block_types is a list of known names that is not empty
C15_KnownTypes ==
    /\ block_types # <<>>
    /\ \A i \in DOMAIN block_types : block_types[i] \in KnownNames

\* set_block_types stores the known names of its argument, in their
\* order, or keeps the list it had when there is none; it changes no other
\* parameter
C15_SetTypesStep ==
    \A types \in TypeArgs :
        set_block_types(types) =>
            /\ block_types' = IF KnownOf(types) # <<>> THEN KnownOf(types)
                              ELSE block_types
            /\ OnlyChanges("block_types")

\* C15: set_block_types drops the names that are not in BLOCK_SIZES and
\* keeps the order of the rest; when no name is left the previous list
\* stays; block_types is always a non-empty list of known names
C15_BlockTypes == []C15_KnownTypes /\ [][C15_SetTypesStep]_vars

\* a list with unknown names between the known ones was stored without
\* them
C15_Witness ==
    /\ pc = "setup"
    /\ block_types = <<"wide", "small">>


\* ------------------------------------------- C16: no error surfaces
\* C16: whatever the setters were called with, a zero or a negative grid
\* size included, the generation call that follows does not end with an
\* error
C16_NeverRaises == pc # "raised"


\* ------------------------------------------------------ C17: rotations
\* angles are in hundredths of a degree
InRotationRange(angle) == -4500 <= angle /\ angle <= 4500

\* the rotation of every box agrees with the rotation mode
C17_RotationOfMode ==
    \A i \in DOMAIN AllSolids :
        LET r == AllSolids[i].rotation_z
        IN  /\ InRotationRange(r)
            /\ rotation_mode = "NONE" => r = 0
            /\ rotation_mode = "PRIORITY_STRAIGHT" => r = 0 \/ InRotationRange(r)

\* the collision flag of the candidate is the result of the test with the
\* candidate's rotation
C17_TestedWithRotation ==
    /\ pc = "flat_retry" =>
          collision = check_collision(block_pos, block_size, solids,
                                      rotation_angle)
    /\ pc = "seg_retry" =>
          collision = check_collision(block_pos, block_size,
                                      solids \o segment_solids, rotation_angle)

\* a box that is placed carries the rotation its candidate was tested with
C17_StoredStep ==
    Len(AllSolids') = Len(AllSolids) + 1 =>
        /\ pc \in {"flat_retry", "seg_retry"}
        /\ ~collision
        /\ AllSolids'[Len(AllSolids')].rotation_z = rotation_angle

\* C17: every box has a rotation about Z in [-45, 45] degrees, exactly 0
\* under NONE and 0 or an angle of that range under PRIORITY_STRAIGHT, and
\* the rotation stored in the box is the one its collision test was made
\* with
C17_Rotations ==
    /\ [](C17_RotationOfMode /\ C17_TestedWithRotation)
    /\ [][C17_StoredStep]_vars

\* a returned list under PRIORITY_STRAIGHT with a straight and a turned box
C17_Witness ==
    /\ Returned
    /\ rotation_mode = "PRIORITY_STRAIGHT"
    /\ \E i, j \in DOMAIN solids :
          /\ solids[i].rotation_z = 0
          /\ solids[j].rotation_z # 0


\* ------------------------------------------- C18: footprint selection
\* the shape manager is set and has an enabled shape
HasEnabledShape ==
    /\ shape_manager.set
    /\ \E i \in DOMAIN shape_manager.shapes : shape_manager.shapes[i].enabled

\* (int(96 * mx), int(96 * my), 32) of a shape; the multipliers are kept
\* doubled
ShapeFootprint(shape) ==
    << (96 * shape.size_multiplier[1]) \div 2,
       (96 * shape.size_multiplier[2]) \div 2, 32 >>

\* C18: with a shape manager that has an enabled shape every box has the
\* size (int(96 * mx), int(96 * my), 32) of an enabled shape, whatever
\* block_types and randomize_sizes are; otherwise its size is the
\* BLOCK_SIZES entry of a name in block_types, of the first name when
\* randomize_sizes is off; the height is 32 in both cases
C18_FootprintSelection ==
    \A i \in DOMAIN AllSolids :
        LET size == AllSolids[i].size
        IN  /\ size[3] = 32
            /\ IF HasEnabledShape
               THEN \E k \in DOMAIN shape_manager.shapes :
                       /\ shape_manager.shapes[k].enabled
                       /\ size = ShapeFootprint(shape_manager.shapes[k])
               ELSE /\ \E k \in DOMAIN block_types :
                          size = BLOCK_SIZES(block_types[k])
                    /\ ~randomize_sizes => size = BLOCK_SIZES(block_types[1])

\* a returned list with a box of a shape that no name of block_types has,
\* from a generator whose block_types and randomize_sizes are set
C18_Witness ==
    /\ Returned
    /\ HasEnabledShape
    /\ randomize_sizes
    /\ block_types # <<>>
    /\ \E i \in DOMAIN solids : solids[i].size = <<96, 192, 32>>
    /\ \A k \in DOMAIN block_types :
          BLOCK_SIZES(block_types[k]) # <<96, 192, 32>>


\* ------------------------------------------------------------ C19: ids
\* C19: in both modes the k-th box of the list (k from 0) has the id
\* 10 + k, across segments and after rows that were given up
C19_SequentialIds ==
    \A i \in DOMAIN AllSolids : AllSolids[i].id = 10 + (i - 1)

\* a returned list of a right turn with both segments filled, after a row
\* was given up
C19_Witness ==
    /\ PatternCall
    /\ Returned
    /\ Len(segments) = 2
    /\ rows_abandoned > 0
    /\ Len(solids) > segments[1].blocks
    /\ solids[Len(solids)].id = 10 + Len(solids) - 1


\* -------------------------------------------------- C20: row advance
\* the list the running flat call or segment appends to
RunList == IF FlatCall THEN solids ELSE segment_solids

\* a step that ends a row: the cursor moves
RowEnds ==
    /\ pc \in {"flat_retry", "seg_retry", "seg_out", "seg_break"}
    /\ current_progress' # current_progress

\* the boxes placed in the row that the step ends: the current_row_blocks
\* boxes placed before the step and the box the step itself places
RowBoxes ==
    LET placed_now == Len(RunList') - Len(RunList)
        n == current_row_blocks + placed_now
    IN  { RunList'[i] : i \in (Len(RunList') - n + 1)..Len(RunList') }

\* the largest extent along the travel axis among the boxes, 0 for none
LargestExtent(boxes) ==
    IF boxes = {} THEN 0
    ELSE CHOOSE e \in { b.size[RunAxis] : b \in boxes } :
            \A b \in boxes : b.size[RunAxis] <= e

C20_RowEndStep ==
    RowEnds =>
        current_progress'[RunAxis] - current_progress[RunAxis] =
            RunSign * (LargestExtent(RowBoxes) + spacing)

\* C20: when a row ends, filled or given up, the cursor moves along the
\* travel axis by the largest extent along that axis among the boxes
\* placed in that row plus the spacing, signed by the travel direction, and
\* by the spacing alone when no box was placed in the row; boxes of earlier
\* rows have no part in it
C20_RowAdvance == [][C20_RowEndStep]_vars


\* ------------------------------------------------ C21: retry budget
\* the retry loop of a candidate has ended: the block is placed or the row
\* is given up in the next step
RetriesOver == pc \in {"flat_retry", "seg_retry"} /\ ~RetryCond

\* the step adds a box to the list
BoxAdded == Len(AllSolids') = Len(AllSolids) + 1

\* a candidate is resampled at most 100 times
C21_AtMostHundred == attempts <= 100

\* when the retries are over the block is placed if its last candidate is
\* free, whatever the number of resamples, and the row is given up if it
\* still collides
C21_PlaceStep ==
    (RetriesOver /\ pc' # pc) =>
        /\ ~collision => BoxAdded
        /\ collision => attempts = 100 /\ ~BoxAdded

\* C21: a colliding candidate is resampled at most 100 times; the block is
\* placed as soon as a resampled candidate is free of collisions and in the
\* corridor, also when that is the 100th resample, and the row is given up
\* for collision only when the candidate still collides after 100
\* resamples
C21_RetryBudget == []C21_AtMostHundred /\ [][C21_PlaceStep]_vars

\* ------------------------------------- C22: out of the corridor at once
\* a first candidate was drawn in this step
FirstCandidateStep == pc = "seg_loop" /\ pc' \in {"seg_out", "seg_retry"}

\* a first candidate that is outside the corridor is not tested for
\* collisions and not resampled
C22_OutAtOnce ==
    /\ FirstCandidateStep =>
          (pc' = "seg_out" <=>
              ~is_position_in_corridor(segment, block_pos', block_size'))
    /\ pc = "seg_out" =>
          /\ block_pos' = block_pos
          /\ attempts' = attempts
          /\ collision' = collision
          /\ ~BoxAdded
          /\ blocks_generated' = blocks_generated
          /\ pc' \in {"seg_loop", "seg_end"}
          /\ RunSign * (current_progress'[RunAxis] - current_progress[RunAxis])
                >= spacing

\* C22: in segmented mode a block whose first candidate is outside the
\* corridor ends its row at once: no collision test and no resampling is
\* made for it, no box is added, and the cursor advances as for a full row
C22_CorridorAbandon == [][C22_OutAtOnce]_vars

\* a row was given up for the corridor while boxes were already placed, and
\* the cursor has moved on
C22_Witness ==
    /\ pc = "seg_loop"
    /\ rows_abandoned > 0
    /\ segment_solids # <<>>
    /\ ~is_position_in_corridor(segment, block_pos, block_size)
    /\ current_row_blocks = 0

\* ------------------------------------------------ C23: row targets
\* the cursor of the running flat call or segment has not advanced yet
CursorAtStart ==
    current_progress = (IF FlatCall THEN start_pos ELSE segment.start_pos)

\* the target of the running row is within its range, 1 for the first row
\* of a flat run and of the first segment, and the row holds no more boxes
\* than its target
C23_TargetInRange ==
    (InFlatRun \/ InSegmentRun) =>
        /\ 1 <= blocks_in_current_row
        /\ blocks_in_current_row <= max_blocks_per_row
        /\ current_row_blocks <= blocks_in_current_row
        /\ pc # "seg_end" => current_row_blocks <= Len(RunList)
        /\ (CursorAtStart /\ (FlatCall \/ seg_idx = 0)) =>
              /\ blocks_in_current_row = 1
              /\ Len(RunList) <= 1

\* a box is added only to a row that is not full, and the count of the
\* row's boxes starts again when the cursor advances
C23_RowStep ==
    ((InFlatRun \/ InSegmentRun) /\ pc' # "gen_loop" /\ pc' # "done") =>
        /\ BoxAdded => current_row_blocks < blocks_in_current_row
        /\ (BoxAdded /\ current_progress' = current_progress) =>
              current_row_blocks' = current_row_blocks + 1
        /\ (~BoxAdded /\ current_progress' = current_progress) =>
              current_row_blocks' = current_row_blocks
        /\ (current_progress' # current_progress /\ pc' # "seg_end") =>
              current_row_blocks' = 0

\* C23: the first row of a flat run and of the first segment has the
\* target 1, every other row, the first row of a later segment included,
\* a target in 1..max_blocks_per_row; at most one box is placed before
\* the cursor first advances and at most max_blocks_per_row boxes between
\* two advances
C23_RowTargets == []C23_TargetInRange /\ [][C23_RowStep]_vars

\* the first row of a later segment has a target above 1 and holds a box
C23_Witness ==
    /\ pc = "seg_loop"
    /\ seg_idx >= 1
    /\ CursorAtStart
    /\ blocks_in_current_row > 1
    /\ current_row_blocks = 1
    /\ Len(segment_solids) = 1

\* ------------------------------------- C24: the first block of a row
\* a first candidate was drawn in this step, flat or segmented
CandidateStep ==
    \/ pc = "flat_loop" /\ pc' = "flat_retry"
    \/ FirstCandidateStep

\* the axis across the travel direction
AcrossAxis == IF RunAxis = 2 THEN 1 ELSE 2

\* the snapped coordinate across the travel direction of a candidate that
\* is not randomized: in flat mode start_x - w / 2, in a segment the
\* coordinate of the cursor
NonRandomAcross(size) ==
    IF FlatCall
    THEN RoundHalfEven(2 * start_pos[1] - size[1], 2 * grid_size) * grid_size
    ELSE RoundHalfEven(current_progress[AcrossAxis], grid_size) * grid_size

C24_FirstOfRowStep ==
    (CandidateStep /\ (current_row_blocks = 0 \/ ~randomize_positions)) =>
        block_pos'[AcrossAxis] = NonRandomAcross(block_size')

\* C24: the first block attempted in a row gets the non-random coordinate
\* across the travel direction, also when positions are randomized (only
\* the later blocks of the row get a random offset); without randomization
\* every first candidate gets it
C24_FirstOfRowCentered == [][C24_FirstOfRowStep]_vars

\* ------------------------------------ C25: centered in the corridor
\* the coordinate across the corridor of a box that is centered in it,
\* snapped: the centre of the corridor less half of the box's extent
CenteredAcross(size) ==
    RoundHalfEven(2 * segment.start_pos[AcrossAxis] - size[AcrossAxis],
                  2 * grid_size) * grid_size

C25_CenteredStep ==
    (FirstCandidateStep /\ (~randomize_positions \/ blocks_generated = 0)) =>
        block_pos'[AcrossAxis] = CenteredAcross(block_size')

\* C25: in segmented mode a candidate that is not randomized is centered
\* in the corridor: its least coordinate across the corridor is the
\* corridor's centre less half of the footprint's extent on that axis
\* (here after snapping both), as for the first block of flat mode
C25_SegmentCentered == [][C25_CenteredStep]_vars

\* --------------------------------------------- C26: the flat band
\* C26: in flat mode every box that is no wider than the path lies, before
\* snapping, inside the band [start_x - path_width / 2, start_x +
\* path_width / 2] on X; snapping moves a coordinate by at most half a
\* grid step, so the snapped box is within half a grid step of the band
\* (all terms doubled)
C26_FlatBand ==
    FlatCall =>
        \A i \in DOMAIN solids :
            LET x == solids[i].pos[1]
                w == solids[i].size[1]
            IN  path_width >= w =>
                    /\ 2 * start_pos[1] - path_width - grid_size <= 2 * x
                    /\ 2 * (x + w) <= 2 * start_pos[1] + path_width + grid_size

\* ------------------------------------------------------- C27: rows
\* the boxes of the running list at one coordinate along the travel axis
AtCoordinate(c) == { i \in DOMAIN RunList : RunList[i].pos[RunAxis] = c }

\* no more boxes of a flat run or a segment share a coordinate along the
\* travel axis than a row can hold
C27_RowHolds ==
    (InFlatRun \/ InSegmentRun) =>
        \A i \in DOMAIN RunList :
            Cardinality(AtCoordinate(RunList[i].pos[RunAxis]))
                <= max_blocks_per_row

\* a box that joins a row has the coordinate of the row's boxes; the first
\* box of a row has a coordinate that no box of an earlier row has
C27_RowStep ==
    ((InFlatRun \/ InSegmentRun) /\ BoxAdded) =>
        LET new == RunList'[Len(RunList')]
        IN  IF current_row_blocks > 0
            THEN new.pos[RunAxis] = RunList[Len(RunList)].pos[RunAxis]
            ELSE \A i \in DOMAIN RunList :
                    RunList[i].pos[RunAxis] # new.pos[RunAxis]

\* C27: the boxes placed in one row have the same snapped coordinate along
\* the travel axis, boxes of different rows of one segment or flat run
\* have different ones, and so at most max_blocks_per_row boxes of a
\* segment share such a coordinate, for every allowed grid size and
\* spacing
C27_RowsApart == []C27_RowHolds /\ [][C27_RowStep]_vars

\* ------------------------------------------- C28: a retry's frame
\* one turn of a retry loop, flat or segmented
RetryTurn ==
    \/ pc = "flat_retry" /\ pc' = "flat_retry"
    \/ pc = "seg_retry" /\ pc' \in {"seg_retry", "seg_break"}

\* a step between the first test of a candidate and the end of its retries
BlockPending ==
    /\ pc \in {"flat_retry", "seg_retry", "seg_break", "seg_out"}
    /\ pc' \in {"flat_retry", "seg_retry", "seg_break", "seg_out"}

C28_RetryStep ==
    /\ RetryTurn =>
          /\ block_size' = block_size
          /\ rotation_angle' = rotation_angle
          /\ block_pos'[RunAxis] = block_pos[RunAxis]
          /\ block_pos'[3] = block_pos[3]
    /\ BlockPending => AllSolids' = AllSolids
    /\ (pc \in {"flat_retry", "seg_retry", "seg_break", "seg_out"} /\ BoxAdded) =>
          LET new == AllSolids'[Len(AllSolids')]
          IN  /\ new.size = block_size
              /\ new.pos = block_pos
              /\ new.rotation_z = rotation_angle
              /\ SubSeq(AllSolids', 1, Len(AllSolids)) = AllSolids

\* C28: a collision retry changes only the candidate's coordinate across
\* the travel direction: its footprint size, rotation angle, coordinate
\* along the travel axis and z stay those chosen before the first test,
\* the list of placed boxes is unchanged until the block is placed, and
\* the box placed is the candidate of the last retry
C28_RetryFrame == [][C28_RetryStep]_vars

\* a segmented candidate is in its second retry at another coordinate
\* across the corridor than the cursor's
C28_Witness ==
    /\ pc = "seg_retry"
    /\ attempts >= 2
    /\ block_pos[AcrossAxis] # current_progress[AcrossAxis]

\* ------------------------------------- C29: the chain of each call
\* generate_with_pattern begins: the chain is resolved in this step
PatternCallBegins == pc = "idle" /\ pc' = "gen_loop"

\* the chain of the pattern, block count, segment length and path width
\* that are set now, laid out from the start position
CurrentChain ==
    ResolvePositions(create_pattern(path_pattern, block_count,
                                    segment_length, path_width), start_pos)

C29_CallStep == (PatternCallBegins /\ path_pattern # "CUSTOM") => segments' = CurrentChain

\* C29: when the caller has supplied no custom chain, every
\* generate_with_pattern call lays out the segments of the pattern, block
\* count, segment length and path width that are set at the time of the
\* call, also on a later call on the same generator after setters changed
\* them
C29_ChainOfTheCall == [][C29_CallStep]_vars

\* a call made through MainWindow.on_generate's preset branch lays out the
\* chain of the current settings
C29_PresetCallStep ==
    (PatternCallBegins /\ segments = <<>>) => segments' = CurrentChain

C29_PresetCalls == [][C29_PresetCallStep]_vars

\* in a run of ReuseSpec no candidate collides: the retry loop's body is
\* never entered
C29_NoRetryInReuse == ~(pc = "seg_retry" /\ RetryCond)

\* --------------------------- C30: a corridor as wide as the footprint
\* a first segment the claim is about: FORWARD from a start on the grid,
\* with a quota, one fixed block type, no rotation, and a corridor that is
\* no narrower and no shorter than the type's footprint
FixedFootprint == BLOCK_SIZES(block_types[1])

OnGrid(pos) == \A a \in 1..3 : pos[a] % grid_size = 0

FirstSegmentFits ==
    /\ PatternCall
    /\ ~UsesShapes
    /\ ~randomize_sizes
    /\ rotation_mode = "NONE"
    /\ OnGrid(start_pos)
    /\ segments # <<>>
    /\ segments[1].direction = "FORWARD"
    /\ segments[1].blocks >= 1
    /\ segments[1].width >= FixedFootprint[1]
    /\ segments[1].length >= FixedFootprint[2]

\* C30: in segmented mode a FORWARD first segment with a start on the
\* grid, a quota of one or more, and a corridor no narrower and no shorter
\* than the footprint of the one fixed block type, without rotation,
\* returns one box or more, whether positions are randomized or not; so
\* does a 96 x 96 block with path_width 128
C30_FirstSegmentFills == (Returned /\ FirstSegmentFits) => solids # <<>>
=============================================================================
